---- MODULE Spec2Model ----
(***************************************************************************)
(* fallback(candidates, options) of fallback-chain-js: a sequential        *)
(* fallback orchestrator.  The source of the function is                   *)
(* src/packages/fallback-chain-js/README.md, lines 131-354.                *)
(*                                                                         *)
(* The model follows one invocation.  The caller's inputs (candidates,     *)
(* options, the external AbortSignal) are chosen by Init.  What the        *)
(* caller's callbacks return and how a candidate settles is chosen by the  *)
(* environment when the code calls them or awaits them.  Each action is    *)
(* one synchronous run of the async function between two suspension        *)
(* points, or one event of the runtime (a timer callback, an abort event   *)
(* of the external signal, a candidate's promise settling).                *)
(***************************************************************************)
EXTENDS Integers, Sequences, FiniteSets, TLC

\* Longest candidate list the caller passes.
MaxCands == 2

----------------------------------------------------------------------------
(* JavaScript values *)

\* A number | undefined | function value, as options.timeoutMs holds one.
Undefined == [type |-> "undefined", finite |-> FALSE, n |-> 0]
Num(n)    == [type |-> "number", finite |-> TRUE, n |-> n]
Infinity  == [type |-> "number", finite |-> FALSE, n |-> 1]
Function  == [type |-> "function", finite |-> FALSE, n |-> 0]

\* The payloads a candidate may resolve with.
Payloads == {"x"}

\* The value candidate i resolved with.
Value(i, p) == [by |-> i, v |-> p]
NoValue     == [by |-> -1, v |-> "none"]

\* An error value: its name, who created it, for which attempt, and what a
\* TimeoutError and an UnacceptableResultError carry.
MkError(name, by, at, ms, value) ==
  [name |-> name, by |-> by, at |-> at, ms |-> ms, value |-> value]

\* What candidate i may throw or reject with: a plain error, an abort-like
\* error (name "AbortError"), an instance of the exported TimeoutError.
PlainError(i)   == MkError("Error", "candidate", i, Undefined, NoValue)
AbortError(i)   == MkError("AbortError", "candidate", i, Undefined, NoValue)
ForeignTimeoutError(i) == MkError("TimeoutError", "candidate", i, Num(1), NoValue)
CandidateErrors(i) == {PlainError(i), AbortError(i), ForeignTimeoutError(i)}
\* What candidate i may reject with from inside its abort listener.
ReactionErrors(i) == {PlainError(i), AbortError(i)}

\* Mutant: the TimeoutError carries a fixed duration.
TimeoutError_FixedMs(ms, i) == MkError("TimeoutError", "timer", i, Num(10), NoValue)

\* new TimeoutError(timeoutMs), made by the timer of attempt i.
TimeoutError(ms, i) == MkError("TimeoutError", "timer", i, ms, NoValue)

\* Mutant: the synthetic error does not carry the rejected value.
UnacceptableResultError_NoValue(value, i) ==
  MkError("UnacceptableResultError", "fallback", i, Undefined, NoValue)

\* Object.assign(new Error("Unacceptable result"), {name, value}).
UnacceptableResultError(value, i) ==
  MkError("UnacceptableResultError", "fallback", i, Undefined, value)

\* new TypeError("fallback(candidates): candidates must be a non-empty array").
ArgumentError == MkError("TypeError", "fallback", -1, Undefined, NoValue)

\* Object.assign(new Error("Aborted"), {name: "AbortError"}).
DefaultAbortError == MkError("AbortError", "fallback", -1, Undefined, NoValue)

\* options.signal.reason: the caller's own reason, the runtime's default
\* DOMException named AbortError, or none (null, or a runtime without reason).
CustomReason  == MkError("Error", "signal", -1, Undefined, NoValue)
DefaultReason == MkError("AbortError", "signal", -1, Undefined, NoValue)
NoReason      == MkError("undefined", "signal", -1, Undefined, NoValue)
Reasons       == {CustomReason, DefaultReason, NoReason}

\* new FallbackError(message, errors); message counts the candidates.
FallbackError(count, errs) ==
  [name |-> "FallbackError", count |-> count, errors |-> errs]

\* The settlement of the promise fallback returns.
Pending   == [kind |-> "pending"]
Return(v) == [kind |-> "return", value |-> v]
Throw(e)  == [kind |-> "throw", error |-> e]

----------------------------------------------------------------------------
(* The caller's inputs *)

\* A candidate as the caller wrote it: a function, or an object with an
\* optional name and a run field that is callable or not; name is a sequence
\* of at most one string (empty: undefined).
FnCandidate    == [type |-> "function", name |-> <<>>, run |-> TRUE]
NamedCandidate == [type |-> "object", name |-> <<"primary">>, run |-> TRUE]
WellFormed     == {FnCandidate, NamedCandidate}

\* The lists of k candidates the caller passes: functions only, or named
\* objects and functions in turn.
Lists(k) ==
  {[i \in 1..k |-> FnCandidate],
   [i \in 1..k |-> IF i % 2 = 1 THEN NamedCandidate ELSE FnCandidate]}

\* The candidates argument: an array of at most MaxCands candidates, or
\* something that is not an array.
NotAnArray == [isArray |-> FALSE, items |-> <<>>]
Array(items) == [isArray |-> TRUE, items |-> items]
CandidateArgs ==
  {NotAnArray} \cup {Array(items) : items \in UNION {Lists(k) : k \in 0..MaxCands}}

\* options.timeoutMs: absent, a number, or a function of {attempt}.
TimeoutOptions == {Undefined, Num(10), Num(-1), Infinity, Function}
\* What a caller's timeoutMs function may return for attempt i: it may give
\* the first attempt no timeout, and gives every attempt its own number.
TimeoutFnReturns(i) == IF i = 0 THEN {Undefined, Num(20)} ELSE {Num(20 + i)}

\* options: signal is whether an AbortSignal was passed; accept and retryable
\* are "default" (absent) or "custom"; onAttempt is whether a hook was passed.
Options ==
  [signal : BOOLEAN, timeoutMs : TimeoutOptions,
   accept : {"default", "custom"}, retryable : {"default", "custom"},
   onAttempt : BOOLEAN]

VARIABLES
  candidates,  \* the candidates argument
  options,     \* the options argument
  signal,      \* options.signal: [aborted, reason]
  listeners,   \* attempts whose onAbort listener is registered on options.signal
  pc,          \* where the async function stands: ready, loop, await, done
  attempt,     \* the loop variable
  errors,      \* the errors array
  controller,  \* controller.signal.aborted of each attempt's AbortController
  timers,      \* pending setTimeout timers: [attempt, ms]
  running,     \* candidates whose run(ctx) was called and has not settled
  result,      \* the settlement of the returned promise
  trace        \* history of calls and events, in the order they happened

vars == <<candidates, options, signal, listeners, pc, attempt, errors,
          controller, timers, running, result, trace>>

\* candidates.length
N == Len(candidates.items)
Attempts == 0 .. (N - 1)

----------------------------------------------------------------------------
(* History events *)

EvTimeout(i, t, armed) ==
  [ev |-> "getTimeoutMs", attempt |-> i, ms |-> t, armed |-> armed]
\* Mutant: the candidate is handed a fresh empty errors array.
EvRun_EmptyErrors(i, errs, ab) ==
  [ev |-> "run", attempt |-> i, errors |-> <<>>, aborted |-> ab]

\* run(ctx) with ctx = {attempt, signal: controller.signal, errors}
EvRun(i, errs, ab) ==
  [ev |-> "run", attempt |-> i, errors |-> errs, aborted |-> ab]
\* the abort event of options.signal, while attempt i was the current one
EvAbort(i) == [ev |-> "abort", attempt |-> i]
\* the setTimeout callback of attempt i ran
EvTimer(i) == [ev |-> "timer", attempt |-> i]
\* the awaited race of attempt i delivered value or error
EvValue(i, v) == [ev |-> "settle", attempt |-> i, kind |-> "value", value |-> v]
EvError(i, e) == [ev |-> "settle", attempt |-> i, kind |-> "error", error |-> e]
EvAccept(i, v, ret) == [ev |-> "accept", attempt |-> i, value |-> v, ret |-> ret]
EvRetryable(i, e, ret) ==
  [ev |-> "retryable", attempt |-> i, error |-> e, ret |-> ret]
\* the attempt's outcome as the code classified it
EvOutcome(i, outcome) == [ev |-> "outcome", attempt |-> i, outcome |-> outcome]
\* options.onAttempt(info); name, value and error hold at most one element
EvOnAttempt(i, name, outcome, value, error) ==
  [ev |-> "onAttempt", attempt |-> i, name |-> name, outcome |-> outcome,
   value |-> value, error |-> error]

----------------------------------------------------------------------------
(* Helpers of the source *)

\* isAbortLike(err)
isAbortLike(err) == err.name = "AbortError"

\* normalizeCandidate(c): {name?, run}
normalizeCandidate(c) ==
  IF c.type = "function" THEN [name |-> <<>>, run |-> TRUE]
  ELSE IF c.name = <<>> THEN [name |-> <<>>, run |-> c.run]
  ELSE [name |-> c.name, run |-> c.run]

\* getTimeoutMs(timeoutMs, attempt); fnReturn is what timeoutMs({attempt})
\* returns when timeoutMs is a function.
getTimeoutMs(timeoutMs, fnReturn) ==
  IF timeoutMs.type = "function" THEN fnReturn ELSE timeoutMs

\* Mutant: any number arms the timer.
TimeoutIsSet_AnyNumber(t) == t.type = "number"

\* typeof t === "number" && Number.isFinite(t) && t >= 0
TimeoutIsSet(t) == t.type = "number" /\ t.finite /\ t.n >= 0

\* options.accept ?? (() => true): acceptReturn is what the caller's accept
\* returns, taken as the test !accept(...) takes it.
accept(acceptReturn) ==
  IF options.accept = "default" THEN TRUE ELSE acceptReturn

\* options.retryable ?? ((err) => !isAbortLike(err))
retryable(err, retryableReturn) ==
  IF options.retryable = "custom" THEN retryableReturn ELSE ~isAbortLike(err)

\* Mutant: the error of the timer is classified like a candidate's error.
Classify_TimerIsRejected(err, controllerAborted) ==
  IF isAbortLike(err) THEN "aborted" ELSE "rejected"

\* The outcome the catch block gives an error.
Classify(err, controllerAborted) ==
  IF err.name = "TimeoutError" THEN "timeout"
  ELSE IF isAbortLike(err) \/ controllerAborted THEN "aborted"
  ELSE "rejected"

\* options.signal.reason ?? Object.assign(new Error("Aborted"), {name: "AbortError"})
AbortReason(reason) ==
  IF reason = NoReason THEN DefaultAbortError ELSE reason

\* What the caller's callbacks may return when the code calls them.
AcceptReturns == IF options.accept = "default" THEN {TRUE} ELSE BOOLEAN
RetryableReturns == IF options.retryable = "custom" THEN BOOLEAN ELSE {TRUE}
TimeoutReturns ==
  IF options.timeoutMs.type = "function"
  THEN TimeoutFnReturns(attempt) ELSE {Undefined}

\* Mutant: a timeout is reported to the hook as rejected.
OnAttempt_TimeoutAsRejected(name, outcome, value, error) ==
  IF options.onAttempt
  THEN <<EvOnAttempt(attempt, name,
                     IF outcome = "timeout" THEN "rejected" ELSE outcome,
                     value, error)>>
  ELSE <<>>

\* if (name === undefined) options.onAttempt?.(info);
\* else options.onAttempt?.({...info, name})
OnAttempt(name, outcome, value, error) ==
  IF options.onAttempt
  THEN <<EvOnAttempt(attempt, name, outcome, value, error)>>
  ELSE <<>>

----------------------------------------------------------------------------
(* The state after construction: the caller has its arguments in hand and  *)
(* has not called fallback yet.                                            *)

Init ==
  /\ candidates \in CandidateArgs
  /\ options \in Options
  /\ signal \in IF options.signal
                THEN {[aborted |-> FALSE, reason |-> NoReason]}
                     \cup {[aborted |-> TRUE, reason |-> r] : r \in Reasons}
                ELSE {[aborted |-> FALSE, reason |-> NoReason]}
  /\ listeners = {}
  /\ pc = "ready"
  /\ attempt = 0
  /\ errors = <<>>
  /\ controller = [i \in Attempts |-> FALSE]
  /\ timers = {}
  /\ running = {}
  /\ result = Pending
  /\ trace = <<>>

----------------------------------------------------------------------------
(* The exits of one loop iteration.  ts is the set of pending timers and   *)
(* tr the history at the moment the iteration leaves its try statement.    *)

\* Mutant: the cleanup removes the listener and leaves the timer armed.
Cleanup_KeepsTimer(ts) ==
  /\ listeners' = listeners \ {attempt}
  /\ timers' = ts

\* finally { for (const fn of cleanup) fn(); }: removeEventListener and
\* clearTimeout of the current attempt.
Cleanup(ts) ==
  /\ listeners' = listeners \ {attempt}
  /\ timers' = {t \in ts : t.attempt # attempt}

\* Mutant: the success branch does not return; the loop goes on.
ReturnValue_KeepsLooping(value, ts, tr) ==
  /\ Cleanup(ts)
  /\ result' = Return(value)
  /\ pc' = "loop"
  /\ attempt' = attempt + 1
  /\ trace' = tr
  /\ UNCHANGED errors

\* Mutant: with a hook the success branch does not return.
ReturnValue_UnlessObserved(value, ts, tr) ==
  /\ Cleanup(ts)
  /\ result' = IF options.onAttempt THEN result ELSE Return(value)
  /\ pc' = IF options.onAttempt THEN "loop" ELSE "done"
  /\ attempt' = IF options.onAttempt THEN attempt + 1 ELSE attempt
  /\ trace' = tr
  /\ UNCHANGED errors

\* return value;
ReturnValue(value, ts, tr) ==
  /\ Cleanup(ts)
  /\ result' = Return(value)
  /\ pc' = "done"
  /\ trace' = tr
  /\ UNCHANGED <<attempt, errors>>

\* Mutant: an error that stops the loop is thrown wrapped in a FallbackError.
ThrowError_Wrapped(err, ts, tr) ==
  /\ Cleanup(ts)
  /\ result' = Throw(FallbackError(N, Append(errors, err)))
  /\ pc' = "done"
  /\ trace' = tr
  /\ UNCHANGED <<attempt, errors>>

\* throw err;
ThrowError(err, ts, tr) ==
  /\ Cleanup(ts)
  /\ result' = Throw(err)
  /\ pc' = "done"
  /\ trace' = tr
  /\ UNCHANGED <<attempt, errors>>

\* Mutant: continue without errors.push(err).
Continue_NoPush(err, ts, tr) ==
  /\ Cleanup(ts)
  /\ attempt' = attempt + 1
  /\ pc' = "loop"
  /\ trace' = tr
  /\ UNCHANGED <<errors, result>>

\* Mutant: errors.unshift(err) in place of errors.push(err).
Continue_Unshift(err, ts, tr) ==
  /\ Cleanup(ts)
  /\ errors' = <<err>> \o errors
  /\ attempt' = attempt + 1
  /\ pc' = "loop"
  /\ trace' = tr
  /\ UNCHANGED result

\* Mutant: the loop goes on before the hook was called for the attempt.
Continue_Unreported(err, ts, tr) ==
  /\ Cleanup(ts)
  /\ errors' = Append(errors, err)
  /\ attempt' = attempt + 1
  /\ pc' = "loop"
  /\ trace' = SelectSeq(tr, LAMBDA e : ~(e.ev = "onAttempt" /\ e.attempt = attempt))
  /\ UNCHANGED result

\* Mutant: the error replaces the errors recorded before it.
Continue_Overwrites(err, ts, tr) ==
  /\ Cleanup(ts)
  /\ errors' = <<err>>
  /\ attempt' = attempt + 1
  /\ pc' = "loop"
  /\ trace' = tr
  /\ UNCHANGED result

\* Mutant: the loop goes round without attempt++ and tries the same candidate.
Continue_SameCandidate(err, ts, tr) ==
  /\ Cleanup(ts)
  /\ errors' = Append(errors, err)
  /\ attempt' = attempt
  /\ pc' = "loop"
  /\ trace' = tr
  /\ UNCHANGED result

\* errors.push(err); continue;  (the push of the unacceptable branch comes
\* before its onAttempt call, with the same effect)
Continue(err, ts, tr) ==
  /\ Cleanup(ts)
  /\ errors' = Append(errors, err)
  /\ attempt' = attempt + 1
  /\ pc' = "loop"
  /\ trace' = tr
  /\ UNCHANGED result

\* The name of the current candidate, as normalizeCandidate gives it.
CurrentName == normalizeCandidate(candidates.items[attempt + 1]).name

\* Mutant: the value is returned whatever accept said.
OnValue_ReturnsUnaccepted(value, ts, tr) ==
  \E acceptReturn \in AcceptReturns :
    LET accepted == accept(acceptReturn)
        tr1 == Append(tr, EvAccept(attempt, value, accepted))
    IN ReturnValue(value, ts,
                   tr1 \o <<EvOutcome(attempt, "success")>>
                       \o OnAttempt(CurrentName, "success", <<value>>, <<>>))

\* The try block after the await delivered a value.
OnValue(value, ts, tr) ==
  \E acceptReturn \in AcceptReturns :
    LET accepted == accept(acceptReturn)
        tr1 == Append(tr, EvAccept(attempt, value, accepted))
    IN IF ~accepted
       THEN Continue(UnacceptableResultError(value, attempt), ts,
                     tr1 \o <<EvOutcome(attempt, "unacceptable")>>
                         \o OnAttempt(CurrentName, "unacceptable", <<value>>, <<>>))
       ELSE ReturnValue(value, ts,
                     tr1 \o <<EvOutcome(attempt, "success")>>
                         \o OnAttempt(CurrentName, "success", <<value>>, <<>>))

\* Mutant: the catch block asks retryable before it looks at the outcome, so
\* an aborted attempt that retryable lets pass is pushed and the loop goes on.
OnError_RetryableFirst(err, controllerAborted, ts, tr) ==
  LET outcome == Classify(err, controllerAborted)
      tr1 == tr \o <<EvOutcome(attempt, outcome)>>
                \o OnAttempt(CurrentName, outcome, <<>>, <<err>>)
  IN \E retryableReturn \in RetryableReturns :
       LET again == retryable(err, retryableReturn)
           tr2 == Append(tr1, EvRetryable(attempt, err, again))
       IN IF ~again
          THEN ThrowError(err, ts, tr2)
          ELSE Continue(err, ts, tr2)

\* The catch block; controllerAborted is controller.signal.aborted.
OnError(err, controllerAborted, ts, tr) ==
  LET outcome == Classify(err, controllerAborted)
      tr1 == tr \o <<EvOutcome(attempt, outcome)>>
                \o OnAttempt(CurrentName, outcome, <<>>, <<err>>)
  IN IF outcome = "aborted"
     THEN ThrowError(err, ts, tr1)
     ELSE \E retryableReturn \in RetryableReturns :
            LET again == retryable(err, retryableReturn)
                tr2 == Append(tr1, EvRetryable(attempt, err, again))
            IN IF ~again
               THEN ThrowError(err, ts, tr2)
               ELSE Continue(err, ts, tr2)

----------------------------------------------------------------------------
(* The async function *)

\* Mutant: no check of options.signal.aborted before the loop.
Call_NoAbortedCheck ==
  /\ pc = "ready"
  /\ IF ~candidates.isArray \/ N = 0
     THEN result' = Throw(ArgumentError) /\ pc' = "done"
     ELSE pc' = "loop" /\ UNCHANGED result
  /\ UNCHANGED <<candidates, options, signal, listeners, attempt, errors,
                 controller, timers, running, trace>>

\* Mutant: the check of the signal comes before the check of the argument.
Call_AbortedCheckFirst ==
  /\ pc = "ready"
  /\ IF options.signal /\ signal.aborted
     THEN result' = Throw(AbortReason(signal.reason)) /\ pc' = "done"
     ELSE IF ~candidates.isArray \/ N = 0
          THEN result' = Throw(ArgumentError) /\ pc' = "done"
          ELSE pc' = "loop" /\ UNCHANGED result
  /\ UNCHANGED <<candidates, options, signal, listeners, attempt, errors,
                 controller, timers, running, trace>>

\* fallback(candidates, options) up to the loop: the argument check and the
\* check of a signal that is already aborted.
Call ==
  /\ pc = "ready"
  /\ IF ~candidates.isArray \/ N = 0
     THEN result' = Throw(ArgumentError) /\ pc' = "done"
     ELSE IF options.signal /\ signal.aborted
          THEN result' = Throw(AbortReason(signal.reason)) /\ pc' = "done"
          ELSE pc' = "loop" /\ UNCHANGED result
  /\ UNCHANGED <<candidates, options, signal, listeners, attempt, errors,
                 controller, timers, running, trace>>

\* Mutant: the loop stops one candidate early.
LoopCondition_OffByOne == attempt < N - 1

\* for (...; attempt < candidates.length; ...)
LoopCondition == attempt < N

\* One iteration from its head to the await: the attempt's controller, the
\* listener on options.signal, the timeout and its timer, and run(ctx).
StartAttempt ==
  /\ pc = "loop"
  /\ LoopCondition
  /\ \E fnReturn \in TimeoutReturns :
       LET perAttemptTimeout == getTimeoutMs(options.timeoutMs, fnReturn)
           armed == TimeoutIsSet(perAttemptTimeout)
           already == options.signal /\ signal.aborted
       IN /\ controller' = [controller EXCEPT ![attempt] = already]
          /\ listeners' = IF options.signal /\ ~signal.aborted
                          THEN listeners \cup {attempt}
                          ELSE listeners
          /\ timers' = IF armed
                       THEN timers \cup {[attempt |-> attempt, ms |-> perAttemptTimeout]}
                       ELSE timers
          /\ trace' = trace \o <<EvTimeout(attempt, perAttemptTimeout, armed),
                                 EvRun(attempt, errors, already)>>
  /\ running' = running \cup {attempt}
  /\ pc' = "await"
  /\ UNCHANGED <<candidates, options, signal, attempt, errors, result>>

\* The loop ends: throw new FallbackError(..., errors).
Exhausted ==
  /\ pc = "loop"
  /\ ~LoopCondition
  /\ result' = Throw(FallbackError(N, errors))
  /\ pc' = "done"
  /\ UNCHANGED <<candidates, options, signal, listeners, attempt, errors,
                 controller, timers, running, trace>>

----------------------------------------------------------------------------
(* The runtime's events *)

\* The current candidate's promise resolves and wins the race.
CandidateResolves ==
  /\ pc = "await"
  /\ attempt \in running
  /\ \E p \in Payloads :
       OnValue(Value(attempt, p), timers,
               Append(trace, EvValue(attempt, Value(attempt, p))))
  /\ running' = running \ {attempt}
  /\ UNCHANGED <<candidates, options, signal, controller>>

\* The current candidate throws, or its promise rejects, and wins the race.
CandidateRejects ==
  /\ pc = "await"
  /\ attempt \in running
  /\ \E err \in CandidateErrors(attempt) :
       OnError(err, controller[attempt], timers, Append(trace, EvError(attempt, err)))
  /\ running' = running \ {attempt}
  /\ UNCHANGED <<candidates, options, signal, controller>>

\* What the race of attempt i delivers once its timer callback ran
\* controller.abort() and reject(new TimeoutError(ms)): the timeout, unless
\* the candidate settled its promise inside its own abort listener, which is
\* then delivered first.
RaceAfterTimer(i, ms) ==
  {[from |-> "timer", kind |-> "error", error |-> TimeoutError(ms, i), value |-> NoValue]}
  \cup
  (IF i \in running
   THEN {[from |-> "candidate", kind |-> "error", error |-> e, value |-> NoValue] :
           e \in ReactionErrors(i)}
        \cup
        {[from |-> "candidate", kind |-> "value", error |-> PlainError(i),
          value |-> Value(i, p)] : p \in Payloads}
   ELSE {})

\* Mutant: one AbortController is shared by the attempts, so the timer of an
\* attempt aborts the context of every attempt.
TimerFires_SharedController ==
  \E t \in timers :
    LET i == t.attempt
        ts == timers \ {t}
        tr == Append(trace, EvTimer(i))
    IN /\ controller' = [j \in Attempts |-> TRUE]
       /\ IF pc = "await" /\ i = attempt
          THEN \E r \in RaceAfterTimer(i, t.ms) :
                 /\ running' = IF r.from = "candidate" THEN running \ {i} ELSE running
                 /\ IF r.kind = "value"
                    THEN OnValue(r.value, ts, Append(tr, EvValue(i, r.value)))
                    ELSE OnError(r.error, TRUE, ts, Append(tr, EvError(i, r.error)))
          ELSE /\ timers' = ts
               /\ trace' = tr
               /\ UNCHANGED <<listeners, pc, attempt, errors, running, result>>
       /\ UNCHANGED <<candidates, options, signal>>

\* Mutant: the timer callback aborts the controller and rejects nothing.
TimerFires_OnlyAborts ==
  \E t \in timers :
    /\ controller' = [controller EXCEPT ![t.attempt] = TRUE]
    /\ timers' = timers \ {t}
    /\ trace' = Append(trace, EvTimer(t.attempt))
    /\ UNCHANGED <<candidates, options, signal, listeners, pc, attempt, errors,
                   running, result>>

\* A setTimeout callback runs: controller.abort(); reject(new TimeoutError(ms)).
TimerFires ==
  \E t \in timers :
    LET i == t.attempt
        ts == timers \ {t}
        tr == Append(trace, EvTimer(i))
    IN /\ controller' = [controller EXCEPT ![i] = TRUE]
       /\ IF pc = "await" /\ i = attempt
          THEN \E r \in RaceAfterTimer(i, t.ms) :
                 /\ running' = IF r.from = "candidate" THEN running \ {i} ELSE running
                 /\ IF r.kind = "value"
                    THEN OnValue(r.value, ts, Append(tr, EvValue(i, r.value)))
                    ELSE OnError(r.error, TRUE, ts, Append(tr, EvError(i, r.error)))
          ELSE /\ timers' = ts
               /\ trace' = tr
               /\ UNCHANGED <<listeners, pc, attempt, errors, running, result>>
       /\ UNCHANGED <<candidates, options, signal>>

\* A callback of the caller ran in the synchronous stretch before this loop head.
CallbackRan ==
  options.onAttempt \/ options.accept = "custom" \/ options.retryable = "custom"

\* options.signal is aborted, while the function awaits an attempt or from
\* inside a callback of the caller: the registered listeners run
\* controller.abort() and, registered once, are gone. A callback runs before
\* the finally block of its iteration, the listener of the attempt that just
\* ended still registered.
ExternalAbort ==
  /\ options.signal
  /\ ~signal.aborted
  /\ pc = "await" \/ (pc = "loop" /\ attempt > 0 /\ CallbackRan)
  /\ signal' = [aborted |-> TRUE, reason |-> DefaultReason]
  /\ controller' = [i \in Attempts |->
                     \/ controller[i]
                     \/ i \in listeners
                     \/ pc = "loop" /\ i = attempt - 1]
  /\ listeners' = {}
  /\ trace' = Append(trace, EvAbort(attempt))
  /\ UNCHANGED <<candidates, options, pc, attempt, errors, timers, running, result>>

\* A candidate that lost its race to the timer settles later: nobody listens.
LateSettle ==
  \E i \in running :
    /\ ~(pc = "await" /\ i = attempt)
    /\ running' = running \ {i}
    /\ UNCHANGED <<candidates, options, signal, listeners, pc, attempt, errors,
                   controller, timers, result, trace>>

Next ==
  \/ Call
  \/ StartAttempt
  \/ Exhausted
  \/ CandidateResolves
  \/ CandidateRejects
  \/ TimerFires
  \/ ExternalAbort
  \/ LateSettle

Spec == Init /\ [][Next]_vars

----------------------------------------------------------------------------
(* Reading the history *)

Idx == DOMAIN trace
Last(q) == q[Len(q)]
Min(S) == CHOOSE m \in S : \A x \in S : m <= x

\* The history holds an event of this kind for attempt i.
Has(kind, i) == \E n \in Idx : trace[n].ev = kind /\ trace[n].attempt = i
\* The candidates whose run was called.
Invoked == {trace[n].attempt : n \in {m \in Idx : trace[m].ev = "run"}}
\* Attempt i was given this outcome.
Outcome(i, outcome) ==
  \E n \in Idx : trace[n].ev = "outcome" /\ trace[n].attempt = i
                 /\ trace[n].outcome = outcome
\* The race of attempt i delivered value v, or error e.
Delivered(i, v) ==
  \E n \in Idx : trace[n].ev = "settle" /\ trace[n].attempt = i
                 /\ trace[n].kind = "value" /\ trace[n].value = v
Failed(i, e) ==
  \E n \in Idx : trace[n].ev = "settle" /\ trace[n].attempt = i
                 /\ trace[n].kind = "error" /\ trace[n].error = e
\* The loop is at its head about to start attempt i, or has called run of i.
Reaches(i) == (pc = "loop" /\ attempt = i /\ ENABLED StartAttempt) \/ i \in Invoked
Thrown(e) == pc = "done" /\ result = Throw(e)
Aggregate == result.kind = "throw" /\ result.error.name = "FallbackError"

----------------------------------------------------------------------------
(* The claims *)

\* C1: whenever fallback has returned a value, that value is the one
\* delivered by the lowest-index attempt classified success, and no candidate
\* of a higher index was invoked; and when the first candidate's value was
\* accepted, the result is that value and candidate 0 alone was invoked.
C1_FirstSuccessWins ==
  /\ result.kind = "return" =>
       \E k \in Attempts :
         /\ Outcome(k, "success")
         /\ \A j \in Attempts : Outcome(j, "success") => k <= j
         /\ Delivered(k, result.value)
         /\ result.value.by = k
         /\ \A i \in Invoked : i <= k
  /\ \A n \in Idx :
       (trace[n].ev = "accept" /\ trace[n].attempt = 0 /\ trace[n].ret) =>
         /\ result = Return(trace[n].value)
         /\ Invoked = {0}

\* C1 witness: the first of several candidates resolved, a custom accept took
\* its value, and fallback returned it.
C1_Witness ==
  /\ N >= 2
  /\ options.accept = "custom"
  /\ pc = "done"
  /\ result.kind = "return"
  /\ result.value.by = 0

C3_UnacceptableMovesOn ==
  \A n \in Idx :
    (trace[n].ev = "accept" /\ ~trace[n].ret) =>
      LET k == trace[n].attempt
          v == trace[n].value
      IN /\ Outcome(k, "unacceptable")
         /\ Len(errors) > k
         /\ errors[k + 1] = UnacceptableResultError(v, k)
         /\ errors[k + 1].value = v
         /\ ~Has("retryable", k)
         /\ result # Return(v)
         /\ IF k < N - 1
            THEN Reaches(k + 1)
            ELSE (pc = "loop" /\ attempt = N /\ ENABLED Exhausted)
                 \/ Thrown(FallbackError(N, errors))

\* C3 witness: accept refused the value of the last candidate and the
\* invocation ended in the aggregate failure.
C3_Witness ==
  /\ Aggregate
  /\ \E n \in Idx : trace[n].ev = "accept" /\ ~trace[n].ret
                    /\ trace[n].attempt = N - 1
  /\ Outcome(0, "rejected")

\* C4 (as claimed): when the timer of attempt k expired and its timeout was
\* what the race delivered, the value of candidate k is never returned and,
\* if k is not the last, candidate k+1 is attempted.
C4_TimeoutAlwaysMovesOn ==
  \A n \in Idx :
    (trace[n].ev = "settle" /\ trace[n].kind = "error"
       /\ trace[n].error.name = "TimeoutError" /\ trace[n].error.by = "timer") =>
      LET k == trace[n].attempt
      IN /\ ~(result.kind = "return" /\ result.value.by = k)
         /\ k < N - 1 => Reaches(k + 1)

\* C5: when retryable returned false for the error of attempt k, the
\* invocation has ended by throwing that very error, the errors hold nothing
\* for attempt k, and no candidate after k was invoked.
C5_NonRetryableStops ==
  \A n \in Idx :
    (trace[n].ev = "retryable" /\ ~trace[n].ret) =>
      LET k == trace[n].attempt
          e == trace[n].error
      IN /\ Failed(k, e)
         /\ Thrown(e)
         /\ Len(errors) = k
         /\ \A p \in DOMAIN errors : errors[p] # e
         /\ \A i \in Invoked : i <= k

\* C5 witness: a custom retryable refused the plain error of candidate 0
\* while a further candidate was waiting.
C5_Witness ==
  /\ N >= 2
  /\ \E n \in Idx : trace[n].ev = "retryable" /\ ~trace[n].ret
                    /\ trace[n].error = PlainError(0)
  /\ pc = "done"

\* An attempt that ended without success and let the loop go on.
FailedOn(k) ==
  /\ Has("run", k)
  /\ Outcome(k, "unacceptable") \/ Outcome(k, "rejected") \/ Outcome(k, "timeout")
  /\ ~\E n \in Idx : trace[n].ev = "retryable" /\ trace[n].attempt = k
                     /\ ~trace[n].ret

\* C6: the invocation has thrown the FallbackError exactly when it has ended
\* with every candidate attempted, none classified success and none stopping
\* the loop; the errors it carries are then as many as the candidates.
C6_AggregateIffExhausted ==
  /\ Aggregate <=>
       (pc = "done" /\ candidates.isArray /\ N > 0 /\ \A k \in Attempts : FailedOn(k))
  /\ Aggregate => /\ Len(result.error.errors) = N
                  /\ result.error.count = N

\* C6 witness: accept refused the value of every one of several candidates.
C6_Witness ==
  /\ Aggregate
  /\ N >= 2
  /\ \A k \in Attempts : Outcome(k, "unacceptable")

\* The error the code recorded for attempt i.
Recorded(i, e) ==
  \/ Failed(i, e)
  \/ \E n \in Idx : /\ trace[n].ev = "settle" /\ trace[n].attempt = i
                    /\ trace[n].kind = "value"
                    /\ e = UnacceptableResultError(trace[n].value, i)

\* C7: the errors the FallbackError carries are in attempt order: each entry
\* is the error recorded for one attempt, entries of earlier attempts come
\* first, and the first entry is that of attempt 0.
C7_AggregateKeepsAttemptOrder ==
  Aggregate =>
    LET errs == result.error.errors
    IN /\ \A p \in DOMAIN errs : Recorded(errs[p].at, errs[p])
       /\ \A p, q \in DOMAIN errs : p < q => errs[p].at < errs[q].at
       /\ errs # <<>> => errs[1].at = 0

\* C7 witness: an aggregate failure whose attempts failed in different ways.
C7_Witness ==
  /\ Aggregate
  /\ Len(result.error.errors) >= 2
  /\ result.error.errors[1] = PlainError(0)
  /\ result.error.errors[2].name = "TimeoutError"

\* The signal was aborted before the call: it is aborted and no abort event
\* happened during the invocation.
AbortedBeforeCall ==
  options.signal /\ signal.aborted /\ ~\E n \in Idx : trace[n].ev = "abort"

\* C8: called with a non-empty array and a signal that is already aborted,
\* the invocation ends at once by throwing the signal's reason (the
\* AbortError the code makes when the signal has none), unwrapped: no
\* candidate is invoked, no callback of the caller is called, nothing is
\* registered.
C8_AlreadyAbortedFailsAtOnce ==
  (AbortedBeforeCall /\ candidates.isArray /\ N > 0 /\ pc # "ready") =>
    /\ pc = "done"
    /\ result = Throw(IF signal.reason = NoReason THEN DefaultAbortError
                      ELSE signal.reason)
    /\ trace = <<>>
    /\ running = {} /\ listeners = {} /\ timers = {}

\* C8 witness: the call ended with the caller's own abort reason.
C8_Witness ==
  /\ AbortedBeforeCall
  /\ N >= 1
  /\ options.onAttempt
  /\ Thrown(CustomReason)

\* C9: when attempt k was classified aborted, the invocation has ended by
\* throwing the attempt's error itself, the errors hold nothing for attempt
\* k, retryable was not asked, and no candidate after k was invoked.
C9_AbortedStopsUnwrapped ==
  \A n \in Idx :
    (trace[n].ev = "outcome" /\ trace[n].outcome = "aborted") =>
      LET k == trace[n].attempt
      IN /\ n > 1 /\ trace[n - 1].ev = "settle" /\ trace[n - 1].attempt = k
         /\ trace[n - 1].kind = "error"
         /\ Thrown(trace[n - 1].error)
         /\ Len(errors) = k
         /\ \A p \in DOMAIN errors : errors[p] # trace[n - 1].error
         /\ ~Has("retryable", k)
         /\ \A i \in Invoked : i <= k

\* C9 witness: with a custom retryable, the external signal was aborted
\* during attempt 0 of several and the candidate then rejected.
C9_Witness ==
  /\ N >= 2
  /\ options.retryable = "custom"
  /\ Outcome(0, "aborted")
  /\ Has("abort", 0)
  /\ result = Throw(PlainError(0))

\* The abort event at place n of the history came while its attempt was in
\* flight: run was called for it before.
InFlight(n) ==
  \E m \in Idx : m < n /\ trace[m].ev = "run" /\ trace[m].attempt = trace[n].attempt

\* C10 (as claimed): when the external signal is aborted while attempt k is
\* in flight, the invocation stays pending until attempt k settles, then ends
\* in failure, and no candidate after k is invoked.
C10_AbortInFlightEndsInFailure ==
  \A n \in Idx :
    (trace[n].ev = "abort" /\ InFlight(n)) =>
      LET k == trace[n].attempt
          settled == \E m \in Idx : m > n /\ trace[m].ev = "settle"
                                    /\ trace[m].attempt = k
      IN /\ ~settled => (pc = "await" /\ attempt = k /\ result = Pending)
         /\ settled => (pc = "done" /\ result.kind = "throw")
         /\ \A i \in Invoked : i <= k

\* C11 (as claimed): an attempt classified timeout never asks the caller's
\* retryable, its TimeoutError is never thrown to the caller, and the loop goes on to the
\* next candidate, or to the aggregate failure after the last.
C11_TimeoutSkipsRetryable ==
  \A n \in Idx :
    (trace[n].ev = "outcome" /\ trace[n].outcome = "timeout") =>
      LET k == trace[n].attempt
      IN /\ options.retryable = "custom" => ~Has("retryable", k)
         /\ ~(result.kind = "throw" /\ result.error.name = "TimeoutError"
                /\ result.error.at = k)
         /\ IF k < N - 1
            THEN Reaches(k + 1)
            ELSE (pc = "loop" /\ attempt = N) \/ Aggregate

\* The run events before place n of the history.
RunsBefore(n) == {m \in Idx : m < n /\ trace[m].ev = "run"}

\* C12: candidates are invoked in list order, none skipped and none twice,
\* and when candidate i+1 is invoked the race of attempt i has settled, then
\* the attempt was classified, then (with a hook) reported to onAttempt with
\* that outcome.
C12_InOrderAfterReport ==
  \A n \in Idx :
    trace[n].ev = "run" =>
      LET i == trace[n].attempt
      IN /\ i = Cardinality(RunsBefore(n))
         /\ i > 0 =>
              \E c \in 1 .. (n - 1) :
                /\ trace[c].ev = "outcome" /\ trace[c].attempt = i - 1
                /\ \E s \in 1 .. (c - 1) :
                     trace[s].ev = "settle" /\ trace[s].attempt = i - 1
                /\ options.onAttempt =>
                     /\ c + 1 < n
                     /\ trace[c + 1].ev = "onAttempt"
                     /\ trace[c + 1].attempt = i - 1
                     /\ trace[c + 1].outcome = trace[c].outcome

\* C12 witness: with a hook, attempt 0 timed out and candidate 1 was invoked.
C12_Witness ==
  /\ options.onAttempt
  /\ Outcome(0, "timeout")
  /\ Has("run", 1)

\* C13 (as claimed): at every instant at most one candidate is active, that
\* is invoked and not yet settled, also after an attempt ended by its timeout.
C13_AtMostOneActive == Cardinality(running) <= 1

\* The attempts whose run was called and which the code has not classified.
Unclassified == {i \in Invoked : ~Has("outcome", i)}

\* C13 (amended): at every instant at most one attempt is awaited, that is
\* invoked and not yet classified, and it is the current one; a candidate
\* that is still running while it is not awaited is one whose attempt was
\* ended by its own timer and classified timeout.
C13_OneAwaitedOthersTimedOut ==
  LET awaited == Unclassified
  IN /\ Cardinality(awaited) <= 1
     /\ \A i \in awaited : pc = "await" /\ i = attempt /\ i \in running
     /\ \A i \in running :
          i \notin awaited => Outcome(i, "timeout") /\ Has("timer", i)

\* C13 witness: candidate 0 lost the race to its timer and is still running
\* while candidate 1 is awaited.
C13_Witness ==
  /\ running = {0, 1}
  /\ pc = "await" /\ attempt = 1
  /\ Outcome(0, "timeout")

\* C14: every armed timer and every registered listener belongs to the
\* attempt that is being awaited: there is at most one of each, and none at
\* a loop head (before the next candidate is invoked) nor after the
\* invocation settled, whatever way the attempt ended.
C14_TimerAndListenerReleased ==
  /\ Cardinality(timers) <= 1
  /\ Cardinality(listeners) <= 1
  /\ \A t \in timers : pc = "await" /\ t.attempt = attempt
  /\ \A i \in listeners : pc = "await" /\ i = attempt

\* C14 witness: attempt 0 had a timer armed and a listener on a signal that
\* was never aborted; its candidate rejected before the timer ran, and the
\* loop is at the head of attempt 1.
C14_Witness ==
  /\ pc = "loop" /\ attempt = 1
  /\ options.signal /\ ~signal.aborted
  /\ \E n \in Idx : trace[n].ev = "getTimeoutMs" /\ trace[n].attempt = 0
                    /\ trace[n].armed
  /\ ~Has("timer", 0)
  /\ Outcome(0, "rejected")
  /\ timers = {} /\ listeners = {}

\* The places of the history where onAttempt was called for attempt i.
Reports(i) == {n \in Idx : trace[n].ev = "onAttempt" /\ trace[n].attempt = i}

\* C15: with a hook, every attempt that was started and has ended was
\* reported to onAttempt exactly once, an attempt still awaited not yet; the
\* call comes right after the classification, with that outcome and the
\* index of the candidate that was invoked last, and before retryable is
\* asked, the next candidate is invoked or the invocation settles.
C15_ReportedOnceAsClassified ==
  options.onAttempt =>
    /\ LET awaited == Unclassified
       IN \A i \in Invoked :
            Cardinality(Reports(i)) = (IF i \in awaited THEN 0 ELSE 1)
    /\ \A n \in Idx :
         trace[n].ev = "outcome" =>
           /\ n < Len(trace)
           /\ trace[n + 1].ev = "onAttempt"
           /\ trace[n + 1].attempt = trace[n].attempt
           /\ trace[n + 1].outcome = trace[n].outcome
    /\ \A n \in Idx :
         trace[n].ev = "onAttempt" =>
           /\ n > 1 /\ trace[n - 1].ev = "outcome"
           /\ RunsBefore(n) # {}
           /\ trace[n].attempt = Cardinality(RunsBefore(n)) - 1
    /\ \A n \in Idx :
         trace[n].ev = "retryable" =>
           /\ n > 1 /\ trace[n - 1].ev = "onAttempt"
           /\ trace[n - 1].attempt = trace[n].attempt
    /\ (pc = "done" \/ pc = "loop") => Unclassified = {}

\* C15 witness: with a hook, attempt 0 timed out and attempt 1 was aborted;
\* each was reported once.
C15_Witness ==
  /\ options.onAttempt
  /\ pc = "done"
  /\ Outcome(0, "timeout") /\ Outcome(1, "aborted")
  /\ Cardinality(Reports(0)) = 1 /\ Cardinality(Reports(1)) = 1

\* The events a step appended to the history, and those of them that are not
\* calls of the hook.
Appended == SubSeq(trace', Len(trace) + 1, Len(trace'))
HookFree(evs) == SelectSeq(evs, LAMBDA e : e.ev # "onAttempt")
HasEv(evs, kind) == \E n \in DOMAIN evs : evs[n].ev = kind
Find(evs, kind) == evs[CHOOSE n \in DOMAIN evs : evs[n].ev = kind]

\* Where a step leaves the invocation (pc, attempt, errors, result), told
\* from where it stood, the arguments other than onAttempt, and the events of
\* the step other than calls of the hook: what the race delivered, the
\* outcome, and what accept and retryable returned.
FlowAfter(evs) ==
  IF HasEv(evs, "outcome")
  THEN LET o == Find(evs, "outcome").outcome
           s == Find(evs, "settle")
       IN CASE o = "success" -> <<"done", attempt, errors, Return(s.value)>>
            [] o = "unacceptable" ->
                 <<"loop", attempt + 1,
                   Append(errors, UnacceptableResultError(s.value, attempt)), result>>
            [] o = "aborted" -> <<"done", attempt, errors, Throw(s.error)>>
            [] OTHER ->
                 IF Find(evs, "retryable").ret
                 THEN <<"loop", attempt + 1, Append(errors, s.error), result>>
                 ELSE <<"done", attempt, errors, Throw(s.error)>>
  ELSE IF HasEv(evs, "run") THEN <<"await", attempt, errors, result>>
  ELSE IF pc = "ready"
       THEN IF ~candidates.isArray \/ N = 0
            THEN <<"done", attempt, errors, Throw(ArgumentError)>>
            ELSE IF options.signal /\ signal.aborted
                 THEN <<"done", attempt, errors, Throw(AbortReason(signal.reason))>>
                 ELSE <<"loop", attempt, errors, result>>
  ELSE IF pc = "loop" /\ attempt >= N /\ evs = <<>> /\ running' = running
       THEN <<"done", attempt, errors, Throw(FallbackError(N, errors))>>
  ELSE <<pc, attempt, errors, result>>

\* C16: the hook never alters the control flow: in every step, which
\* candidate is invoked next, what is appended to the errors and how the
\* invocation settles are fixed by the state and by the events other than
\* calls of the hook, the same with a hook and without one; a step invokes a
\* candidate exactly when it leaves a loop head for the await of that attempt.
C16_HookNeverSteers ==
  [][ /\ <<pc', attempt', errors', result'>> = FlowAfter(HookFree(Appended))
      /\ HasEv(Appended, "run") <=> (pc = "loop" /\ pc' = "await")
      /\ HasEv(Appended, "run") => Find(Appended, "run").attempt = attempt
      /\ HasEv(Appended, "onAttempt") => options.onAttempt /\ HasEv(Appended, "outcome")
    ]_vars

\* C16 witness: with a hook, attempt 0 was reported as failed and the value
\* of candidate 1 was returned.
C16_Witness ==
  /\ options.onAttempt
  /\ Reports(0) # {} /\ Reports(1) # {}
  /\ result.kind = "return" /\ result.value.by = 1

\* C17: called with something that is not an array, or with an empty array,
\* the invocation ends at once by throwing the TypeError of the argument
\* check, also when the signal is already aborted: no candidate is invoked,
\* no listener or timer is registered, no callback of the caller is called.
C17_BadCandidatesFailAtOnce ==
  ((~candidates.isArray \/ N = 0) /\ pc # "ready") =>
    /\ pc = "done"
    /\ result = Throw(ArgumentError)
    /\ result.error.name = "TypeError"
    /\ trace = <<>>
    /\ Invoked = {}
    /\ running = {} /\ listeners = {} /\ timers = {}

\* C17 witness: the call with an empty array, all callbacks supplied and a
\* signal that is already aborted ended with the TypeError.
C17_Witness ==
  /\ candidates = Array(<<>>)
  /\ options.signal /\ signal.aborted
  /\ options.onAttempt /\ options.accept = "custom" /\ options.retryable = "custom"
  /\ Thrown(ArgumentError)

----------------------------------------------------------------------------
(* Candidates of any shape.  The type Candidate<T> is erased at run time:  *)
(* an element of the array may be an object without a callable run, or     *)
(* null or undefined.                                                      *)

\* {} or {name: ...}: c.run is undefined.
NoRunCandidate == [type |-> "object", name |-> <<>>, run |-> FALSE]
\* null or undefined: reading c.name throws.
NullCandidate == [type |-> "null", name |-> <<>>, run |-> FALSE]
Malformed == {NoRunCandidate, NullCandidate}

\* The lists of k elements of any shape.
ShapeLists(k) == [1..k -> {FnCandidate} \cup Malformed]

\* The options of these calls: no timeout or a fixed one, the default accept.
ShapeOptions ==
  {o \in Options : o.timeoutMs \in {Undefined, Num(10)} /\ o.accept = "default"}

ShapeInit ==
  /\ candidates \in {Array(items) : items \in UNION {ShapeLists(k) : k \in 1..MaxCands}}
  /\ options \in ShapeOptions
  /\ signal \in IF options.signal
                THEN {[aborted |-> FALSE, reason |-> NoReason]}
                     \cup {[aborted |-> TRUE, reason |-> r] : r \in Reasons}
                ELSE {[aborted |-> FALSE, reason |-> NoReason]}
  /\ listeners = {}
  /\ pc = "ready"
  /\ attempt = 0
  /\ errors = <<>>
  /\ controller = [i \in Attempts |-> FALSE]
  /\ timers = {}
  /\ running = {}
  /\ result = Pending
  /\ trace = <<>>

\* TypeError: Cannot read properties of null (reading 'name'), thrown by
\* normalizeCandidate for element i.
NormalizeTypeError(i) == MkError("TypeError", "normalizeCandidate", i, Undefined, NoValue)
\* TypeError: run is not a function, thrown by the call run(ctx) of attempt i.
RunTypeError(i) == MkError("TypeError", "run", i, Undefined, NoValue)

\* One iteration from its head, for an element of any shape.  For null,
\* normalizeCandidate throws before the try statement and the invocation
\* rejects.  For an object without run, the listener and the timer are set
\* up, the call run(ctx) throws inside the try statement and the catch block
\* handles the TypeError like an error of a candidate.  Otherwise the
\* candidate is invoked and awaited.
StartAnyShape ==
  /\ pc = "loop"
  /\ LoopCondition
  /\ LET c == candidates.items[attempt + 1]
     IN IF c.type = "null"
        THEN /\ result' = Throw(NormalizeTypeError(attempt))
             /\ pc' = "done"
             /\ UNCHANGED <<candidates, options, signal, listeners, attempt,
                            errors, controller, timers, running, trace>>
        ELSE IF ~normalizeCandidate(c).run
        THEN \E fnReturn \in TimeoutReturns :
               LET perAttemptTimeout == getTimeoutMs(options.timeoutMs, fnReturn)
                   armed == TimeoutIsSet(perAttemptTimeout)
                   already == options.signal /\ signal.aborted
                   ts == IF armed
                         THEN timers \cup {[attempt |-> attempt, ms |-> perAttemptTimeout]}
                         ELSE timers
               IN /\ controller' = [controller EXCEPT ![attempt] = already]
                  /\ OnError(RunTypeError(attempt), already, ts,
                             trace \o <<EvTimeout(attempt, perAttemptTimeout, armed),
                                        EvError(attempt, RunTypeError(attempt))>>)
                  /\ UNCHANGED <<candidates, options, signal, running>>
        ELSE StartAttempt

ShapeNext ==
  \/ Call
  \/ StartAnyShape
  \/ Exhausted
  \/ CandidateResolves
  \/ CandidateRejects
  \/ TimerFires
  \/ ExternalAbort
  \/ LateSettle

ShapeSpec == ShapeInit /\ [][ShapeNext]_vars

\* C18 (as claimed): when some element of the array is neither callable nor
\* an object with a callable run, the invocation ends at the call boundary
\* with a TypeError (or, the signal being aborted already, with its reason):
\* no candidate is invoked, no attempt is classified and nothing is appended
\* to the errors.
C18_MalformedFailsAtBoundary ==
  (\E p \in DOMAIN candidates.items : candidates.items[p] \in Malformed) =>
    /\ Invoked = {}
    /\ ~\E n \in Idx : trace[n].ev = "outcome"
    /\ errors = <<>>
    /\ pc = "done" =>
         /\ result.kind = "throw"
         /\ result.error.name = "TypeError" \/ AbortedBeforeCall

----------------------------------------------------------------------------
\* The terminal states of the state machine of an invocation.
SUCCEEDED ==
  /\ result.kind = "return"
  /\ \E n \in Idx : trace[n].ev = "accept" /\ trace[n].ret
                    /\ trace[n].value = result.value
\* throws the cancellation error: the reason of a signal aborted before the
\* call, or the error of the attempt classified aborted.
ABORTED ==
  /\ result.kind = "throw"
  /\ \/ AbortedBeforeCall /\ trace = <<>> /\ result.error = AbortReason(signal.reason)
     \/ \E k \in Attempts : Outcome(k, "aborted") /\ Failed(k, result.error)
\* throws the candidate's error, which retryable refused.
FAILED_NONRETRYABLE ==
  /\ result.kind = "throw"
  /\ result.error.name # "FallbackError"
  /\ result.error.by = "candidate"
  /\ \E n \in Idx : trace[n].ev = "retryable" /\ ~trace[n].ret
                    /\ trace[n].error = result.error
EXHAUSTED == Aggregate /\ result.error = FallbackError(N, errors)

\* The terminal states the invocation is in.
TerminalStates ==
  {s \in {"SUCCEEDED", "ABORTED", "FAILED_NONRETRYABLE", "EXHAUSTED"} :
     CASE s = "SUCCEEDED" -> SUCCEEDED
       [] s = "ABORTED" -> ABORTED
       [] s = "FAILED_NONRETRYABLE" -> FAILED_NONRETRYABLE
       [] OTHER -> EXHAUSTED}

\* C19 (as claimed), for the calls that pass the argument check: the
\* invocation has settled exactly when the function has ended, and is then
\* in exactly one of the four terminal states; once it settled, its result
\* never changes, no candidate is invoked and nothing is reported.
C19_FourTerminalStates ==
  /\ [](/\ (pc = "done") <=> (result # Pending)
        /\ (pc = "done" /\ candidates.isArray /\ N > 0) =>
              Cardinality(TerminalStates) = 1)
  /\ [][pc = "done" => /\ pc' = "done" /\ result' = result
                       /\ trace' = trace /\ errors' = errors]_vars

----------------------------------------------------------------------------
IsPrefix(s, t) == Len(s) <= Len(t) /\ SubSeq(t, 1, Len(s)) = s

\* C20 (as claimed): the errors only grow by appending, and every entry
\* belongs to an attempt classified rejected or unacceptable: a timeout
\* appends nothing.
C20_OnlyRejectedOrUnacceptableAppend ==
  /\ [](\A p \in DOMAIN errors :
          Outcome(errors[p].at, "rejected") \/ Outcome(errors[p].at, "unacceptable"))
  /\ [][IsPrefix(errors, errors')]_vars

\* C20 (amended): the errors only grow, by one entry appended at a time; they
\* hold one entry for each attempt after which the loop went on to the next
\* candidate, in attempt order, and these attempts are the ones classified
\* rejected, unacceptable or timeout that did not end the invocation; an
\* attempt classified success or aborted has no entry.
C20_AppendOnlyForAttemptsThatContinue ==
  /\ [](/\ \A p \in DOMAIN errors :
             /\ errors[p].at = p - 1
             /\ Recorded(p - 1, errors[p])
             /\ \/ Outcome(p - 1, "rejected")
                \/ Outcome(p - 1, "unacceptable")
                \/ Outcome(p - 1, "timeout")
        /\ pc # "ready" => Len(errors) = attempt
        /\ \A k \in Attempts :
             (Outcome(k, "success") \/ Outcome(k, "aborted")) => Len(errors) <= k)
  /\ [][IsPrefix(errors, errors') /\ Len(errors') <= Len(errors) + 1]_vars

\* C20 witness: the errors hold the TimeoutError of attempt 0, made by its
\* timer, and then the unacceptable result of attempt 1.
C20_Witness ==
  /\ Len(errors) = 2
  /\ errors[1] = TimeoutError(Num(10), 0)
  /\ errors[2].name = "UnacceptableResultError"

----------------------------------------------------------------------------
(* C21: what makes an attempt "aborted" *)

\* options.signal was aborted at some point (it never goes back).
ExternalCanceled == options.signal /\ signal.aborted

\* C21 (as claimed): an attempt is classified aborted only if the error the
\* race delivered is abort-like or the external signal was aborted; an
\* attempt whose controller was aborted by its own timer alone, the external
\* signal never aborted, is never classified aborted and never ends the
\* invocation with the candidate's error, whichever of the candidate's
\* reaction and the TimeoutError is delivered first.
C21_AbortedOnlyByExternalCancel ==
  \A n \in Idx :
    (trace[n].ev = "outcome" /\ trace[n].outcome = "aborted") =>
      LET k == trace[n].attempt IN
        /\ ExternalCanceled
           \/ \E m \in 1..(n - 1) :
                /\ trace[m].ev = "settle" /\ trace[m].attempt = k
                /\ trace[m].kind = "error" /\ isAbortLike(trace[m].error)
        /\ (Has("timer", k) /\ ~ExternalCanceled) => pc # "done"

----------------------------------------------------------------------------
(* C22: the effective timeout and the timer *)

\* The getTimeoutMs event of attempt i, if the attempt got that far.
Resolved(i) == {trace[n] : n \in {m \in Idx : trace[m].ev = "getTimeoutMs" /\ trace[m].attempt = i}}

\* The race of attempt i delivered the TimeoutError of the function's own timer.
TimedOutByTimer(i) ==
  \E n \in Idx : /\ trace[n].ev = "settle" /\ trace[n].attempt = i
                 /\ trace[n].kind = "error" /\ trace[n].error.by = "timer"

\* C22: the effective timeout of attempt i is options.timeoutMs when that is
\* a number (or absent), and what the function returned for {attempt: i}
\* when it is a function; the attempt has a timer exactly when the value is
\* a finite number that is not negative, and with an undefined, negative or
\* non-finite value there is no timer, the timer callback never runs and the
\* race never delivers the timer's TimeoutError.
C22_TimerArmedIffFiniteNonNegative ==
  \A i \in Attempts : \A r \in Resolved(i) :
    LET finiteNonNegative == r.ms.type = "number" /\ r.ms.finite /\ r.ms.n >= 0
        timer == [attempt |-> i, ms |-> r.ms]
    IN /\ IF options.timeoutMs.type = "function"
          THEN r.ms \in TimeoutFnReturns(i)
          ELSE r.ms = options.timeoutMs
       /\ r.armed <=> finiteNonNegative
       /\ (pc = "await" /\ attempt = i /\ ~Has("timer", i)) =>
            (timer \in timers <=> finiteNonNegative)
       /\ \A t \in timers : t.attempt = i => t = timer
       /\ ~finiteNonNegative =>
            /\ ~Has("timer", i)
            /\ ~TimedOutByTimer(i)
            /\ \A p \in DOMAIN errors : errors[p].at = i => errors[p].by # "timer"

\* C22 witness: with a timeoutMs function, attempt 0 got undefined and ended
\* without a timer, and attempt 1 got 21 and waits with its timer armed.
C22_Witness ==
  /\ options.timeoutMs.type = "function"
  /\ pc = "await" /\ attempt = 1
  /\ \E r \in Resolved(0) : r.ms = Undefined /\ ~r.armed
  /\ timers = {[attempt |-> 1, ms |-> Num(21)]}

----------------------------------------------------------------------------
(* C23: the default retryable *)

\* C23 (as claimed): with no options.retryable, an error of candidate k that
\* is not abort-like lets the loop continue and is appended as the entry of
\* attempt k, and an abort-like error of candidate k is thrown to the caller
\* with no further candidate invoked. Attempts during which the external
\* signal was aborted are left out: they are cancellations whatever the error.
C23_DefaultRetryable ==
  options.retryable = "default" =>
    \A n \in Idx :
      (trace[n].ev = "settle" /\ trace[n].kind = "error"
       /\ trace[n].error.by = "candidate") =>
        LET k == trace[n].attempt
            e == trace[n].error
        IN IF isAbortLike(e)
           THEN Thrown(e) /\ attempt = k /\ Len(errors) = k
           ELSE ~ExternalCanceled =>
                  attempt > k /\ Len(errors) > k /\ errors[k + 1] = e

----------------------------------------------------------------------------
(* C24: fallback is not retry *)

\* The calls of candidate i's run.
RunsOf(i) == {n \in Idx : trace[n].ev = "run" /\ trace[n].attempt = i}

\* C24: within one invocation run of candidate i is called 0 or 1 times, and
\* the candidates called once are those of a prefix 0..m of the list: a
\* called candidate has every earlier candidate called, and only candidates
\* of the list are called.
C24_EachCandidateAtMostOnce ==
  /\ \A i \in Attempts :
       /\ Cardinality(RunsOf(i)) <= 1
       /\ (i > 0 /\ RunsOf(i) # {}) => RunsOf(i - 1) # {}
  /\ Invoked \subseteq Attempts
  /\ running \subseteq Invoked

\* C24 witness: the invocation is over with candidates 0 and 1 called once
\* each, candidate 0 having failed with a retryable error.
C24_Witness ==
  /\ pc = "done" /\ N = 2
  /\ Cardinality(RunsOf(0)) = 1 /\ Cardinality(RunsOf(1)) = 1
  /\ Outcome(0, "rejected")

----------------------------------------------------------------------------
(* C25: the duration a TimeoutError carries *)

\* C25: the TimeoutError the timer of attempt i made carries the effective
\* timeout resolved for attempt i, a finite number; with a hook it is the
\* error reported to onAttempt for attempt i, with outcome timeout; and it
\* is the error recorded for attempt i: the entry of attempt i in errors, or
\* the error thrown to the caller when retryable stopped the chain.
C25_TimeoutErrorCarriesEffectiveTimeout ==
  \A n \in Idx :
    (trace[n].ev = "settle" /\ trace[n].kind = "error"
     /\ trace[n].error.by = "timer") =>
      LET i == trace[n].attempt
          e == trace[n].error
      IN /\ e.name = "TimeoutError" /\ e.at = i
         /\ \E r \in Resolved(i) : e.ms = r.ms /\ r.ms.type = "number" /\ r.ms.finite
         /\ options.timeoutMs.type = "function" => e.ms \in TimeoutFnReturns(i)
         /\ options.timeoutMs.type # "function" => e.ms = options.timeoutMs
         /\ options.onAttempt =>
              \E m \in Reports(i) : /\ trace[m].error = <<e>>
                                    /\ trace[m].outcome = "timeout"
         /\ \/ Len(errors) > i /\ errors[i + 1] = e
            \/ Thrown(e)

\* C25 witness: with a timeoutMs function and a hook, attempts 0 and 1 both
\* timed out, and their recorded errors carry 20 and 21.
C25_Witness ==
  /\ options.timeoutMs.type = "function" /\ options.onAttempt
  /\ errors = <<TimeoutError(Num(20), 0), TimeoutError(Num(21), 1)>>

----------------------------------------------------------------------------
(* C27: who aborts an attempt's controller *)

\* The timer callback of attempt i ran: its controller is aborted, and a
\* TimeoutError of the timer that the race delivered came right after it.
TimerAbortsThenRejects ==
  \A n \in Idx :
    /\ trace[n].ev = "timer" => controller[trace[n].attempt]
    /\ (trace[n].ev = "settle" /\ trace[n].kind = "error"
        /\ trace[n].error.by = "timer") =>
         n > 1 /\ trace[n - 1] = EvTimer(trace[n].attempt)

\* options.signal was aborted while attempt j was the one in progress: after
\* run of candidate j was called and before run of the next.
CanceledWhileActive(j) ==
  \E m \in Idx : trace[m].ev = "abort" /\ Cardinality(RunsBefore(m)) = j + 1

\* options.signal was aborted already when attempt j began.
CanceledAtStart(j) == \E r \in RunsOf(j) : trace[r].aborted

----------------------------------------------------------------------------
(* C28: the context a candidate is invoked with *)

\* C28: when run of candidate i is called, ctx.attempt is i, being the
\* number of candidates called before it, and ctx.errors has exactly i
\* entries, the p-th being the error of attempt p - 1; those entries are
\* the ones the invocation still holds, in the same order.
C28_ContextHasOneErrorPerEarlierAttempt ==
  \A n \in Idx :
    trace[n].ev = "run" =>
      LET i == trace[n].attempt
          ctxErrors == trace[n].errors
      IN /\ i = Cardinality(RunsBefore(n))
         /\ Len(ctxErrors) = i
         /\ \A p \in 1 .. i : ctxErrors[p].at = p - 1
         /\ IsPrefix(ctxErrors, errors)

\* C28 witness: candidate 1 was invoked with ctx.errors holding the one
\* error of attempt 0, an unacceptable result.
C28_Witness ==
  \E n \in Idx :
    /\ trace[n].ev = "run" /\ trace[n].attempt = 1
    /\ Len(trace[n].errors) = 1
    /\ trace[n].errors[1].name = "UnacceptableResultError"

----------------------------------------------------------------------------
(* C29: accept and the returned value *)

\* The calls of accept in attempt i.
AcceptsOf(i) == {n \in Idx : trace[n].ev = "accept" /\ trace[n].attempt = i}

\* C29: a value the invocation returned is one accept returned true for, in
\* the attempt whose candidate resolved with it; accept is called at most
\* once per attempt, with the value the race of that attempt just delivered,
\* which the candidate of that attempt resolved with; an attempt whose race
\* delivered an error (the timer's TimeoutError included) has no accept call.
C29_ReturnedValueWasAccepted ==
  /\ result.kind = "return" =>
       \E n \in AcceptsOf(result.value.by) :
         trace[n].value = result.value /\ trace[n].ret
  /\ \A i \in Attempts :
       /\ Cardinality(AcceptsOf(i)) <= 1
       /\ \A n \in AcceptsOf(i) :
            /\ n > 1
            /\ trace[n - 1] = EvValue(i, trace[n].value)
            /\ trace[n].value.by = i
       /\ (\E n \in Idx : trace[n].ev = "settle" /\ trace[n].attempt = i
                          /\ trace[n].kind = "error") => AcceptsOf(i) = {}

\* C29 witness: a custom accept refused the value of candidate 0 and was
\* called once more, for the value of candidate 1, which was returned.
C29_Witness ==
  /\ options.accept = "custom"
  /\ result.kind = "return" /\ result.value.by = 1
  /\ \E n \in AcceptsOf(0) : ~trace[n].ret
  /\ \E n \in AcceptsOf(1) : trace[n].ret

----------------------------------------------------------------------------
(* C26: the accept helpers, used as options.accept *)

\* JavaScript values a candidate may resolve with: null, undefined, numbers,
\* strings, and objects whose ok and status properties hold at most one
\* element (none when the property is missing).
JsNull      == [t |-> "null", n |-> 0, s |-> "", ok |-> <<>>, status |-> <<>>]
JsUndefined == [t |-> "undefined", n |-> 0, s |-> "", ok |-> <<>>, status |-> <<>>]
JsNumber(n) == [t |-> "number", n |-> n, s |-> "", ok |-> <<>>, status |-> <<>>]
JsString(s) == [t |-> "string", n |-> 0, s |-> s, ok |-> <<>>, status |-> <<>>]
JsBoolean(b) == [t |-> "boolean", n |-> IF b THEN 1 ELSE 0, s |-> "", ok |-> <<>>, status |-> <<>>]
JsObject(ok, status) == [t |-> "object", n |-> 0, s |-> "", ok |-> ok, status |-> status]

JsValues ==
  {JsNull, JsUndefined, JsNumber(0), JsNumber(1), JsString(""),
   JsString("truthy"), JsObject(<<>>, <<>>), JsObject(<<TRUE>>, <<200>>),
   JsObject(<<FALSE>>, <<500>>), JsObject(<<FALSE>>, <<201>>),
   JsObject(<<TRUE>>, <<204>>)}

\* Boolean(v), and the truthiness the test !accept(...) applies.
ToBoolean(v) ==
  CASE v.t = "null" -> FALSE
    [] v.t = "undefined" -> FALSE
    [] v.t = "number" -> v.n # 0
    [] v.t = "string" -> v.s # ""
    [] v.t = "boolean" -> v.n = 1
    [] v.t = "object" -> TRUE

\* What a call of a helper gives: it threw, or it returned the value ret.
Returned(ret) == [threw |-> FALSE, ret |-> ret]
Threw         == [threw |-> TRUE, ret |-> JsUndefined]

\* The property access res.p: a TypeError on null and undefined, undefined
\* when the property is missing.
GetProperty(res, p) ==
  IF res.t \in {"null", "undefined"} THEN Threw
  ELSE IF p = <<>> THEN Returned(JsUndefined)
  ELSE Returned(p[1])

\* acceptOk = (res) => res.ok
acceptOk(res) ==
  LET ok == GetProperty(res, res.ok)
  IN IF ok.threw \/ res.ok = <<>> THEN ok ELSE Returned(JsBoolean(res.ok[1]))

\* The codes of acceptStatus(200, 201), as the test suite uses it.
Codes == {200, 201}

\* acceptStatus(...codes) = (res) => codes.includes(res.status)
acceptStatus(res) ==
  LET status == GetProperty(res, res.status)
  IN IF status.threw THEN status
     ELSE Returned(JsBoolean(res.status # <<>> /\ res.status[1] \in Codes))

\* acceptTruthy = (v) => Boolean(v)
acceptTruthy(v) == Returned(JsBoolean(ToBoolean(v)))

\* Mutant: acceptDefined tests truthiness.
acceptDefined_Truthy(v) == Returned(JsBoolean(ToBoolean(v)))

\* acceptDefined = (v) => v !== null && v !== undefined
acceptDefined(v) == Returned(JsBoolean(v.t # "null" /\ v.t # "undefined"))

AcceptHelpers == {"acceptOk", "acceptStatus", "acceptTruthy", "acceptDefined"}

\* accept(value, {attempt}) with options.accept one of the helpers.
CallHelper(v) ==
  CASE options.accept = "acceptOk" -> acceptOk(v)
    [] options.accept = "acceptStatus" -> acceptStatus(v)
    [] options.accept = "acceptTruthy" -> acceptTruthy(v)
    [] options.accept = "acceptDefined" -> acceptDefined(v)

\* TypeError: cannot read properties of null, thrown by accept in attempt i.
AcceptTypeError(i) == MkError("TypeError", "accept", i, Undefined, NoValue)

\* Calls with a helper as options.accept, no signal and no timeout.
AcceptOptions ==
  [signal : {FALSE}, timeoutMs : {Undefined}, accept : AcceptHelpers,
   retryable : {"default"}, onAttempt : BOOLEAN]

AcceptInit ==
  /\ candidates \in CandidateArgs
  /\ options \in AcceptOptions
  /\ signal = [aborted |-> FALSE, reason |-> NoReason]
  /\ listeners = {}
  /\ pc = "ready"
  /\ attempt = 0
  /\ errors = <<>>
  /\ controller = [i \in Attempts |-> FALSE]
  /\ timers = {}
  /\ running = {}
  /\ result = Pending
  /\ trace = <<>>

\* The current candidate resolves with a JavaScript value and the helper is
\* called with it: what the helper returns decides in the try block, and
\* what it throws lands in the catch block.
HelperResolves ==
  /\ pc = "await"
  /\ attempt \in running
  /\ \E v \in JsValues :
       LET value == Value(attempt, v)
           tr == Append(trace, EvValue(attempt, value))
           call == CallHelper(v)
       IN IF call.threw
          THEN OnError(AcceptTypeError(attempt), controller[attempt], timers, tr)
          ELSE /\ OnValue(value, timers, tr)
               /\ trace'[Len(tr) + 1].ret = ToBoolean(call.ret)
  /\ running' = running \ {attempt}
  /\ UNCHANGED <<candidates, options, signal, controller>>

AcceptNext ==
  \/ Call
  \/ StartAttempt
  \/ Exhausted
  \/ HelperResolves
  \/ CandidateRejects

AcceptSpec == AcceptInit /\ [][AcceptNext]_vars

\* What the claim says each helper accepts.
Satisfies(v) ==
  CASE options.accept = "acceptOk" -> v.ok = <<TRUE>>
    [] options.accept = "acceptStatus" ->
         \E c \in Codes : v.status = <<c>>
    [] options.accept = "acceptTruthy" ->
         v \notin {JsNull, JsUndefined, JsNumber(0), JsString("")}
    [] options.accept = "acceptDefined" -> v \notin {JsNull, JsUndefined}

\* C26: with a helper as options.accept, a value candidate i resolved with
\* is returned at once when it satisfies the helper (ok is true for
\* acceptOk, status is one of the codes for acceptStatus, truthy for
\* acceptTruthy, neither null nor undefined for acceptDefined), and is not
\* returned, the loop going on to candidate i+1, when it does not; so the
\* value returned is the first in list order that satisfies the helper.
C26_HelpersReturnFirstSatisfying ==
  /\ \A n \in Idx :
       (trace[n].ev = "settle" /\ trace[n].kind = "value") =>
         LET i == trace[n].attempt
             value == trace[n].value
         IN IF Satisfies(value.v)
            THEN pc = "done" /\ result = Return(value) /\ attempt = i
            ELSE attempt > i /\ Len(errors) > i /\ result # Return(value)
  /\ result.kind = "return" =>
       /\ Satisfies(result.value.v)
       /\ \A n \in Idx :
            (trace[n].ev = "settle" /\ trace[n].kind = "value"
             /\ trace[n].attempt < result.value.by) => ~Satisfies(trace[n].value.v)

\* C26 witness: acceptDefined refused null from candidate 0 and the 0 that
\* candidate 1 resolved with was returned.
C26_Witness ==
  /\ options.accept = "acceptDefined"
  /\ Delivered(0, Value(0, JsNull))
  /\ result = Return(Value(1, JsNumber(0)))

----------------------------------------------------------------------------
(* C30: termination under per-attempt timeouts *)

\* Calls whose every attempt has an armed finite timeout: timeoutMs: 10.
TimedInit == Init /\ options.timeoutMs = Num(10)

\* The function's own synchronous code runs when it is its turn, and the
\* runtime runs the callback of an armed setTimeout once its delay is over.
\* Nothing is assumed of the candidates (they may never settle) nor of the
\* external signal.
Fairness ==
  /\ WF_vars(Call)
  /\ WF_vars(StartAttempt)
  /\ WF_vars(Exhausted)
  /\ WF_vars(TimerFires)

TimedSpec == TimedInit /\ [][Next]_vars /\ Fairness

\* C30: with an armed finite timeout for every attempt and callbacks that
\* return, the promise of fallback eventually settles, whatever the
\* candidates do, and until then run of each candidate is called at most
\* once and the function waits for no candidate but the current one.
C30_SettlesWithinTimeouts ==
  /\ <>(pc = "done" /\ result # Pending)
  /\ [](\A i \in Attempts : Cardinality(RunsOf(i)) <= 1)
  /\ [](pc = "await" => attempt \in running /\ \E t \in timers : t.attempt = attempt)

\* C30 witness: the invocation settled with the aggregate failure while both
\* candidates, which ignored their abort signal, are still running.
C30_Witness ==
  /\ pc = "done" /\ Aggregate
  /\ N = 2 /\ running = {0, 1}
  /\ Outcome(0, "timeout") /\ Outcome(1, "timeout")

----------------------------------------------------------------------------
(* Callbacks of the caller that throw *)

\* The call of callback who in attempt i threw error e.
EvThrow(i, who, e) == [ev |-> "throw", attempt |-> i, who |-> who, error |-> e]

\* What a callback of the caller may throw: a plain error.
CallbackError(who, i) == MkError("Error", who, i, Undefined, NoValue)
\* What accept may throw: a plain error or an abort-like one.
AcceptErrors(i) ==
  {CallbackError("accept", i), MkError("AbortError", "accept", i, Undefined, NoValue)}

\* Calls whose callbacks may throw; timeoutMs is absent, 10 or a function.
ThrowInit == Init /\ options.timeoutMs \in {Undefined, Num(10), Function}

\* The timeoutMs function throws: the listener on options.signal is already
\* registered, the timer and the try statement are not reached, and the
\* error leaves fallback.
TimeoutFnThrows ==
  /\ pc = "loop"
  /\ LoopCondition
  /\ options.timeoutMs.type = "function"
  /\ LET already == options.signal /\ signal.aborted
         e == CallbackError("timeoutMs", attempt)
     IN /\ controller' = [controller EXCEPT ![attempt] = already]
        /\ listeners' = IF options.signal /\ ~signal.aborted
                        THEN listeners \cup {attempt}
                        ELSE listeners
        /\ result' = Throw(e)
        /\ trace' = Append(trace, EvThrow(attempt, "timeoutMs", e))
  /\ pc' = "done"
  /\ UNCHANGED <<candidates, options, signal, attempt, errors, timers, running>>

\* What the race of the current attempt may deliver: the candidate settles
\* on its own (timer = {}), or the timer callback runs and the race delivers
\* what RaceAfterTimer says (timer = {t}).
Deliveries ==
  (IF attempt \in running
   THEN {[from |-> "candidate", kind |-> "error", error |-> e, value |-> NoValue,
          timer |-> {}] : e \in CandidateErrors(attempt)}
        \cup
        {[from |-> "candidate", kind |-> "value", error |-> PlainError(attempt),
          value |-> Value(attempt, p), timer |-> {}] : p \in Payloads}
   ELSE {})
  \cup
  UNION {{[from |-> r.from, kind |-> r.kind, error |-> r.error, value |-> r.value,
           timer |-> {t}] : r \in RaceAfterTimer(attempt, t.ms)} :
         t \in {u \in timers : u.attempt = attempt}}

\* The history, the controller and the candidates still running once the
\* race delivered d.
AfterDelivery(d) ==
  [trace |-> (IF d.timer = {} THEN trace ELSE Append(trace, EvTimer(attempt)))
             \o <<IF d.kind = "value" THEN EvValue(attempt, d.value)
                  ELSE EvError(attempt, d.error)>>,
   aborted |-> controller[attempt] \/ d.timer # {},
   timers |-> timers \ d.timer,
   running |-> IF d.from = "candidate" THEN running \ {attempt} ELSE running]

\* Mutant: accept is called outside the try statement.
AcceptThrows_OutsideTry ==
  /\ pc = "await"
  /\ options.accept = "custom"
  /\ \E d \in Deliveries : \E e \in AcceptErrors(attempt) :
       LET a == AfterDelivery(d)
       IN /\ d.kind = "value"
          /\ ThrowError(e, a.timers, Append(a.trace, EvThrow(attempt, "accept", e)))
          /\ controller' = [controller EXCEPT ![attempt] = a.aborted]
          /\ running' = a.running
  /\ UNCHANGED <<candidates, options, signal>>

\* The await delivers a value and accept(value, {attempt}) throws: the catch
\* block gets the error.
AcceptThrows ==
  /\ pc = "await"
  /\ options.accept = "custom"
  /\ \E d \in Deliveries : \E e \in AcceptErrors(attempt) :
       LET a == AfterDelivery(d)
       IN /\ d.kind = "value"
          /\ OnError(e, a.aborted, a.timers,
                     Append(a.trace, EvThrow(attempt, "accept", e)))
          /\ controller' = [controller EXCEPT ![attempt] = a.aborted]
          /\ running' = a.running
  /\ UNCHANGED <<candidates, options, signal>>

\* The await delivers an error that is not classified aborted and
\* retryable(err, {attempt}) throws: its error leaves the catch block.
RetryableThrows ==
  /\ pc = "await"
  /\ options.retryable = "custom"
  /\ \E d \in Deliveries :
       LET a == AfterDelivery(d)
           outcome == Classify(d.error, a.aborted)
           e == CallbackError("retryable", attempt)
       IN /\ d.kind = "error"
          /\ outcome # "aborted"
          /\ ThrowError(e, a.timers,
                        a.trace \o <<EvOutcome(attempt, outcome)>>
                                \o OnAttempt(CurrentName, outcome, <<>>, <<d.error>>)
                                \o <<EvThrow(attempt, "retryable", e)>>)
          /\ controller' = [controller EXCEPT ![attempt] = a.aborted]
          /\ running' = a.running
  /\ UNCHANGED <<candidates, options, signal>>

\* The way an iteration ends once its finally block ran.
Finish(errs, res, nextPc, nextAttempt, ts, tr) ==
  /\ Cleanup(ts)
  /\ errors' = errs
  /\ result' = res
  /\ pc' = nextPc
  /\ attempt' = nextAttempt
  /\ trace' = tr

\* The catch block for an error the hook threw inside the try block, errs
\* being the errors array by then: the hook is called again, with the
\* outcome of this error, and throws again or returns.
CatchHookError(e, errs, controllerAborted, ts, tr) ==
  LET outcome == Classify(e, controllerAborted)
      tr1 == Append(tr, EvOutcome(attempt, outcome))
  IN \/ Finish(errs, Throw(e), "done", attempt, ts,
               Append(tr1, EvThrow(attempt, "onAttempt", e)))
     \/ LET tr2 == Append(tr1, EvOnAttempt(attempt, CurrentName, outcome, <<>>, <<e>>))
        IN IF outcome = "aborted"
           THEN Finish(errs, Throw(e), "done", attempt, ts, tr2)
           ELSE \E retryableReturn \in RetryableReturns :
                  LET again == retryable(e, retryableReturn)
                      tr3 == Append(tr2, EvRetryable(attempt, e, again))
                  IN IF ~again
                     THEN Finish(errs, Throw(e), "done", attempt, ts, tr3)
                     ELSE Finish(Append(errs, e), result, "loop", attempt + 1, ts, tr3)

\* options.onAttempt throws at its first call of the attempt. Called from
\* the catch block, its error leaves the catch block. Called from the try
\* block (after errors.push for an unacceptable value), its error is caught
\* by the catch block of the same iteration.
OnAttemptThrows ==
  /\ pc = "await"
  /\ options.onAttempt
  /\ \E d \in Deliveries :
       LET a == AfterDelivery(d)
           e == CallbackError("onAttempt", attempt)
       IN /\ IF d.kind = "error"
             THEN LET outcome == Classify(d.error, a.aborted)
                  IN ThrowError(e, a.timers,
                                a.trace \o <<EvOutcome(attempt, outcome),
                                             EvThrow(attempt, "onAttempt", e)>>)
             ELSE \E acceptReturn \in AcceptReturns :
                    LET accepted == accept(acceptReturn)
                        errs == IF accepted THEN errors
                                ELSE Append(errors, UnacceptableResultError(d.value, attempt))
                        tr == a.trace
                              \o <<EvAccept(attempt, d.value, accepted),
                                   EvOutcome(attempt, IF accepted THEN "success"
                                                      ELSE "unacceptable"),
                                   EvThrow(attempt, "onAttempt", e)>>
                    IN CatchHookError(e, errs, a.aborted, a.timers, tr)
          /\ controller' = [controller EXCEPT ![attempt] = a.aborted]
          /\ running' = a.running
  /\ UNCHANGED <<candidates, options, signal>>

ThrowNext ==
  \/ Call
  \/ StartAttempt
  \/ Exhausted
  \/ CandidateResolves
  \/ CandidateRejects
  \/ TimerFires
  \/ ExternalAbort
  \/ LateSettle
  \/ TimeoutFnThrows
  \/ AcceptThrows
  \/ RetryableThrows
  \/ OnAttemptThrows

ThrowSpec == ThrowInit /\ [][ThrowNext]_vars

----------------------------------------------------------------------------
(* C31: accept throws *)

\* The controller of attempt i was aborted before event n of the history:
\* its timer callback ran, or options.signal was aborted when the attempt
\* began or has been aborted since.
CanceledBefore(i, n) ==
  \/ \E m \in 1 .. (n - 1) : trace[m] = EvTimer(i)
  \/ \E r \in RunsOf(i) :
       \/ trace[r].aborted
       \/ \E m \in (r + 1) .. (n - 1) : trace[m].ev = "abort"

\* C31: when accept throws error e for the value candidate i resolved with,
\* the value is not returned and no candidate error could be told from e by
\* what follows: the attempt is classified aborted when e is abort-like or
\* the attempt's controller is aborted and rejected otherwise; with a hook
\* it is reported to onAttempt once, with that outcome and e; classified
\* aborted, e is thrown without a call of retryable; classified rejected,
\* retryable is called with e, and e is thrown when it returns false and
\* appended, the loop going on, when it returns true.
C31_AcceptErrorHandledAsCandidateError ==
  \A n \in Idx :
    (trace[n].ev = "throw" /\ trace[n].who = "accept") =>
      LET i == trace[n].attempt
          e == trace[n].error
          outcome == IF isAbortLike(e) \/ CanceledBefore(i, n)
                     THEN "aborted" ELSE "rejected"
          hook == IF options.onAttempt THEN 1 ELSE 0
      IN /\ n > 1 /\ trace[n - 1].ev = "settle" /\ trace[n - 1].kind = "value"
         /\ result # Return(trace[n - 1].value)
         /\ AcceptsOf(i) = {}
         /\ Len(trace) > n /\ trace[n + 1] = EvOutcome(i, outcome)
         /\ Cardinality(Reports(i)) = hook
         /\ options.onAttempt =>
              /\ Len(trace) > n + 1
              /\ trace[n + 2] = EvOnAttempt(i, normalizeCandidate(candidates.items[i + 1]).name,
                                            outcome, <<>>, <<e>>)
         /\ IF outcome = "aborted"
            THEN Thrown(e) /\ attempt = i /\ ~Has("retryable", i)
            ELSE /\ Len(trace) > n + 1 + hook
                 /\ trace[n + 2 + hook].ev = "retryable"
                 /\ trace[n + 2 + hook].attempt = i
                 /\ trace[n + 2 + hook].error = e
                 /\ IF trace[n + 2 + hook].ret
                    THEN attempt > i /\ \E p \in DOMAIN errors : errors[p] = e
                    ELSE Thrown(e) /\ attempt = i

\* C31 witness: with a hook and a custom retryable, accept threw a plain
\* error for the value of candidate 0, the attempt was reported as rejected,
\* retryable returned true and candidate 1 was invoked.
C31_Witness ==
  /\ options.onAttempt /\ options.retryable = "custom"
  /\ \E n \in Idx : trace[n] = EvThrow(0, "accept", CallbackError("accept", 0))
  /\ Outcome(0, "rejected")
  /\ 1 \in Invoked

----------------------------------------------------------------------------
(* C32: cleanup when a callback throws *)

\* C32 (as claimed): when a callback of the caller (the timeoutMs function,
\* accept, retryable or onAttempt) threw during attempt i, the timer of
\* attempt i is cleared and its listener is removed from options.signal
\* before the invocation goes on or settles: once the invocation settled no
\* timer is pending and no listener is registered.
C32_ThrowingCallbackStillCleansUp ==
  \A n \in Idx :
    trace[n].ev = "throw" =>
      LET i == trace[n].attempt
      IN /\ i \notin listeners
         /\ \A t \in timers : t.attempt # i
         /\ pc = "done" => timers = {} /\ listeners = {}

====
